---- MODULE Spec2Model ----
(***************************************************************************)
(* fastapi_msgspec_openapi.updater: update_route_responses walks the       *)
(* route table of an application and rewrites, in place, the response      *)
(* entries of an OpenAPI document so that they reference the msgspec       *)
(* Struct a handler is declared to return.                                 *)
(*                                                                         *)
(* Python values are modelled as follows.  A dict is a function from its   *)
(* keys to its values, None is the record None below, an optional int is   *)
(* None or IntVal(n), a set that the code iterates over is the sequence of *)
(* its elements in iteration order, and a type annotation is a tagged      *)
(* record.  The document is a tree of dicts without shared sub-objects,    *)
(* as a JSON value is.                                                     *)
(***************************************************************************)
EXTENDS Integers, Sequences, FiniteSets, TLC

VARIABLES
    openapi_schema, \* the document handed to update_route_responses
    routes,         \* app.routes, in route-table order
    i,              \* index of the route the `for route in app.routes` loop is at
    pc,             \* "loop" | "returned" | "raised": where the current call is
    call,           \* 1: first call of update_route_responses, 2: the call repeated
    before,         \* history: the document as it was when the current call began
    results,        \* history: per route attempted in this call, what its iteration did
    log             \* history: the records the current call handed to the logger

vars == <<openapi_schema, routes, i, pc, call, before, results, log>>

----------------------------------------------------------------------------
(* Python values *)

None == [py_none |-> TRUE]
EmptyDict == [k \in {} |-> None]
IntVal(n) == [int |-> n]

\* d.get(k, default)
Get(d, k, default) == IF k \in DOMAIN d THEN d[k] ELSE default

\* d[k] = v
SetItem(d, k, v) == [x \in (DOMAIN d) \cup {k} |-> IF x = k THEN v ELSE d[x]]

Digits == <<"0", "1", "2", "3", "4", "5", "6", "7", "8", "9">>

\* str(n) for a non-negative int
RECURSIVE Str(_)
Str(n) == IF n < 10 THEN Digits[n + 1] ELSE Str(n \div 10) \o Digits[(n % 10) + 1]

\* A variant of Lower that leaves the case of the method as the route gives it
LowerOmitted(method) == method

\* method.lower() on the HTTP verbs of the model; other strings of the model are lowercase already
Lower(method) ==
    CASE method = "GET" -> "get"
      [] method = "POST" -> "post"
      [] OTHER -> method

----------------------------------------------------------------------------
(* Type annotations and the Struct extractor *)

Struct(name) == [tag |-> "struct", name |-> name]
Plain(name) == [tag |-> "plain", name |-> name]
Optional(inner) == [tag |-> "optional", arg |-> inner]

\* scanner.extract_struct: the record type an annotation denotes or wraps, else None
RECURSIVE extract_struct(_)
extract_struct(type_expr) ==
    IF type_expr = None THEN None
    ELSE IF type_expr.tag = "struct" THEN type_expr
    ELSE IF type_expr.tag = "optional" THEN extract_struct(type_expr.arg)
    ELSE None

----------------------------------------------------------------------------
(* The response entry written for a Struct *)

DefaultDescription == "Successful Response"

\* f"#/components/schemas/{struct.__name__}"
RefOf(struct) == "#/components/schemas/" \o struct.name

\* A variant of DescriptionOf that keeps the description only of an entry that
\* has no content yet
DescriptionOfBareEntry(entry) ==
    IF "content" \in DOMAIN entry THEN DefaultDescription
    ELSE Get(entry, "description", DefaultDescription)

\* responses[status_str].get("description", "Successful Response")
DescriptionOf(entry) == Get(entry, "description", DefaultDescription)

\* A variant of NewEntry that updates the entry's keys and keeps its other keys
NewEntryKeepingKeys(entry, struct) ==
    SetItem(SetItem(entry, "description", Get(entry, "description", DefaultDescription)),
            "content", ("application/json" :> [schema |-> ("$ref" :> RefOf(struct))]))

\* A variant of NewEntry that leaves an entry alone once it references a component
NewEntryKeepingRef(entry, struct) ==
    IF /\ "content" \in DOMAIN entry
       /\ "application/json" \in DOMAIN entry.content
       /\ "$ref" \in DOMAIN entry.content["application/json"].schema
    THEN entry
    ELSE [description |-> Get(entry, "description", DefaultDescription),
          content |-> ("application/json" :> [schema |-> ("$ref" :> RefOf(struct))])]

\* The dict literal assigned to the response entry
NewEntry(entry, struct) ==
    [description |-> DescriptionOf(entry),
     content |-> ("application/json" :> [schema |-> ("$ref" :> RefOf(struct))])]

----------------------------------------------------------------------------
(* Results of a (partial) run of the try body: the paths dict as mutated so  *)
(* far, the exception raised ("none" when it ran on), the response entries   *)
(* assigned to, and the log records emitted.                                 *)

Outcome(paths, exc, written, lg) ==
    [paths |-> paths, exc |-> exc, written |-> written, log |-> lg]

Debug(msg) == [level |-> "debug", msg |-> msg]
Error(msg) == [level |-> "error", msg |-> msg]

\* A variant of UpdateMethodResponse without the early return on a status code
\* that is not documented: it adds the entry (and "responses") instead
UpdateMethodResponseCreating(path, method, struct, status_code, paths) ==
    IF paths[path] = None
    THEN Outcome(paths, "TypeError", {}, <<>>)
    ELSE IF method \notin DOMAIN paths[path]
    THEN Outcome(paths, "none", {}, <<Debug("Method not in path")>>)
    ELSE LET endpoint_schema == paths[path][method] IN
    IF endpoint_schema = None
    THEN Outcome(paths, "AttributeError", {}, <<>>)
    ELSE LET responses == Get(endpoint_schema, "responses", EmptyDict)
             status_str == Str(status_code) IN
    IF responses = None
    THEN Outcome(paths, "TypeError", {}, <<>>)
    ELSE IF Get(responses, status_str, EmptyDict) = None
    THEN Outcome(paths, "AttributeError", {}, <<>>)
    ELSE Outcome(
            SetItem(paths, path,
                SetItem(paths[path], method,
                    SetItem(endpoint_schema, "responses",
                        SetItem(responses, status_str,
                                [description |-> Get(Get(responses, status_str, EmptyDict),
                                                     "description", DefaultDescription),
                                 content |-> ("application/json" :>
                                                [schema |-> ("$ref" :> RefOf(struct))])])))),
            "none",
            {<<path, method, status_str>>},
            <<Debug("Updated response")>>)

\* _update_method_response
UpdateMethodResponse(path, method, struct, status_code, paths) ==
    IF paths[path] = None
    THEN Outcome(paths, "TypeError", {}, <<>>)          \* `method not in None`
    ELSE IF method \notin DOMAIN paths[path]
    THEN Outcome(paths, "none", {}, <<Debug("Method not in path")>>)
    ELSE LET endpoint_schema == paths[path][method] IN
    IF endpoint_schema = None
    THEN Outcome(paths, "AttributeError", {}, <<>>)     \* None.get
    ELSE LET responses == Get(endpoint_schema, "responses", EmptyDict)
             status_str == Str(status_code) IN
    IF responses = None
    THEN Outcome(paths, "TypeError", {}, <<>>)          \* `status_str not in None`
    ELSE IF status_str \notin DOMAIN responses
    THEN Outcome(paths, "none", {}, <<Debug("Status code not in responses")>>)
    ELSE IF responses[status_str] = None
    THEN Outcome(paths, "AttributeError", {}, <<>>)     \* None.get
    ELSE Outcome(
            SetItem(paths, path,
                SetItem(paths[path], method,
                    SetItem(endpoint_schema, "responses",
                        SetItem(endpoint_schema["responses"], status_str,
                                NewEntry(responses[status_str], struct))))),
            "none",
            {<<path, method, status_str>>},
            <<Debug("Updated response")>>)

DefaultStatusCode == 200

\* A variant of StatusCodeOf that ignores the status code the route declares
StatusCodeIgnored(route) == DefaultStatusCode

\* route.status_code or 200
StatusCodeOf(route) ==
    IF route.status_code = None \/ route.status_code.int = 0
    THEN DefaultStatusCode
    ELSE route.status_code.int

\* `for method in route.methods: _update_method_response(...)`, from the k-th method on
RECURSIVE MethodLoop(_, _, _, _, _)
MethodLoop(k, route, struct, status_code, acc) ==
    IF k > Len(route.methods)
    THEN acc
    ELSE LET r == UpdateMethodResponse(route.path, Lower(route.methods[k]),
                                       struct, status_code, acc.paths)
             next == Outcome(r.paths, r.exc, acc.written \cup r.written, acc.log \o r.log)
         IN IF r.exc # "none" THEN next
            ELSE MethodLoop(k + 1, route, struct, status_code, next)

\* get_type_hints(route.endpoint, include_extras=True): the exception it raises, or "none"
TypeHintsError(endpoint) == endpoint.hints

\* hints.get("return")
ReturnType(endpoint) == endpoint.returns

\* The body of the try statement for one route
TryBody(route, paths) ==
    IF TypeHintsError(route.endpoint) # "none"
    THEN Outcome(paths, TypeHintsError(route.endpoint), {}, <<>>)
    ELSE LET return_type == ReturnType(route.endpoint) IN
    IF return_type = None
    THEN Outcome(paths, "none", {}, <<>>)
    ELSE LET struct == extract_struct(return_type) IN
    IF struct = None
    THEN Outcome(paths, "none", {}, <<>>)
    ELSE IF paths = None
    THEN Outcome(paths, "TypeError", {}, <<>>)          \* `path not in None`
    ELSE IF route.path \notin DOMAIN paths
    THEN Outcome(paths, "none", {}, <<Debug("Path not in OpenAPI schema")>>)
    ELSE MethodLoop(1, route, struct, StatusCodeOf(route),
                    Outcome(paths, "none", {}, <<>>))

\* paths = openapi_schema.get("paths", {})
PathsOf(schema) == Get(schema, "paths", EmptyDict)

\* The document after the paths dict was mutated in place: paths is the
\* document's own "paths" object when it has one, a detached {} otherwise
WithPaths(schema, paths) ==
    IF "paths" \in DOMAIN schema THEN SetItem(schema, "paths", paths) ELSE schema

\* isinstance(route, APIRoute) and route.endpoint is not None
IsProcessed(route) == route.kind = "APIRoute" /\ route.endpoint # None

\* route.endpoint.__name__ raises AttributeError when the callable has no __name__
HasName(route) == route.endpoint.named

----------------------------------------------------------------------------
(* Inputs: the route tables and documents the calls are checked on *)

MaxRoutes == 2

Handler(named, hints, returns) == [named |-> named, hints |-> hints, returns |-> returns]

Route(kind, endpoint, path, methods, status_code) ==
    [kind |-> kind, endpoint |-> endpoint, path |-> path,
     methods |-> methods, status_code |-> status_code]

ItemOut == Struct("ItemOut")
UserOut == Struct("UserOut")

\* Handlers whose annotations resolve to a Struct: `-> ItemOut`, `-> Optional[UserOut]`
ResolvingRoutes ==
    {Route("APIRoute", Handler(TRUE, "none", ItemOut), "/items", ms, sc) :
        ms \in {<<"GET">>, <<"POST", "GET">>}, sc \in {None, IntVal(201)}}
    \cup
    {Route("APIRoute", Handler(TRUE, "none", Optional(UserOut)), p, <<"GET">>, None) :
        p \in {"/items", "/users"}}

\* Handlers the updater has nothing to do for: no return annotation, `-> str`, a
\* forward reference to an undefined name (NameError), and callables without
\* __name__: an instance of a callable class whose class annotations do not
\* resolve (NameError) and a functools.partial (TypeError from get_type_hints)
OtherHandlers ==
    {Handler(TRUE, "none", None), Handler(TRUE, "none", Plain("str")),
     Handler(TRUE, "NameError", None),
     Handler(FALSE, "NameError", None), Handler(FALSE, "TypeError", None)}

RouteShapes ==
    ResolvingRoutes
    \cup {Route("APIRoute", h, "/items", <<"GET">>, None) : h \in OtherHandlers}
    \cup {Route("APIRoute", None, "/items", <<"GET">>, None),
          Route("Mount", None, "/items", <<>>, None)}

RouteTables == UNION {[1..n -> RouteShapes] : n \in 0..MaxRoutes}

OkEntry == [description |-> "OK"]
CreatedEntry == [description |-> "Created"]
RichEntry ==
    [description |-> "OK",
     headers |-> [ETag |-> "string"],
     content |-> ("application/json" :> [schema |-> [type |-> "object"]])
                 @@ ("application/xml" :> [schema |-> [type |-> "string"]])]

Op(responses) == [summary |-> "op", responses |-> responses]
OpWithoutResponses == [summary |-> "op"]

GetResponses ==
    {("200" :> OkEntry),
     ("201" :> CreatedEntry),
     ("200" :> EmptyDict) @@ ("201" :> CreatedEntry),
     ("200" :> RichEntry) @@ ("201" :> CreatedEntry),
     ("200" :> None),
     None}

ItemsPathItems ==
    {g @@ p :
        g \in {EmptyDict} \cup {("get" :> o) : o \in {Op(r) : r \in GetResponses}
                                                   \cup {OpWithoutResponses}},
        p \in {EmptyDict, ("post" :> None),
               ("post" :> Op(("200" :> OkEntry) @@ ("201" :> EmptyDict)))}}
    \cup {None}

UsersPathItem == ("get" :> Op(("200" :> OkEntry)))

Documents ==
    {[openapi |-> "3.1.0"], [openapi |-> "3.1.0", paths |-> None]}
    \cup {[openapi |-> "3.1.0", paths |-> ("/items" :> it) @@ u] :
            it \in ItemsPathItems, u \in {EmptyDict, ("/users" :> UsersPathItem)}}

----------------------------------------------------------------------------
(* The calls *)

Result(exc, written, level) == [exc |-> exc, written |-> written, level |-> level]

Init ==
    /\ openapi_schema \in Documents
    /\ routes \in RouteTables
    /\ i = 1
    /\ pc = "loop"
    /\ call = 1
    /\ before = openapi_schema
    /\ results = <<>>
    /\ log = <<>>

AtRoute == pc = "loop" /\ i <= Len(routes)

\* `if not isinstance(route, APIRoute) or route.endpoint is None: continue`
SkipRoute ==
    /\ AtRoute
    /\ ~IsProcessed(routes[i])
    /\ i' = i + 1
    /\ results' = Append(results, Result("none", {}, "none"))
    /\ UNCHANGED <<openapi_schema, routes, pc, call, before, log>>

\* One iteration whose try body ends without an exception (by a `continue` or
\* at the end of the method loop)
UpdateRoute ==
    /\ AtRoute
    /\ IsProcessed(routes[i])
    /\ LET r == TryBody(routes[i], PathsOf(openapi_schema)) IN
        /\ r.exc = "none"
        /\ openapi_schema' = WithPaths(openapi_schema, r.paths)
        /\ log' = log \o r.log
        /\ results' = Append(results, Result("none", r.written, "none"))
    /\ i' = i + 1
    /\ UNCHANGED <<routes, pc, call, before>>

\* The handler's log call evaluates route.endpoint.__name__ first: on a
\* callable without __name__ that raises AttributeError out of the except
\* clause, and so out of update_route_responses, before anything is logged.
Handle(r, record) ==
    /\ openapi_schema' = WithPaths(openapi_schema, r.paths)
    /\ IF HasName(routes[i])
       THEN /\ log' = log \o r.log \o <<record>>
            /\ results' = Append(results, Result(r.exc, r.written, record.level))
            /\ i' = i + 1
            /\ pc' = pc
       ELSE /\ log' = log \o r.log
            /\ results' = Append(results, Result(r.exc, r.written, "none"))
            /\ i' = i
            /\ pc' = "raised"
    /\ UNCHANGED <<routes, call, before>>

\* `except (NameError, AttributeError) as e: logger.debug(...); continue`
ResolveFailure ==
    /\ AtRoute
    /\ IsProcessed(routes[i])
    /\ LET r == TryBody(routes[i], PathsOf(openapi_schema)) IN
        /\ r.exc \in {"NameError", "AttributeError"}
        /\ Handle(r, Debug("Cannot resolve type hints"))

\* `except Exception as e: logger.error(..., exc_info=True)`
UnexpectedFailure ==
    /\ AtRoute
    /\ IsProcessed(routes[i])
    /\ LET r == TryBody(routes[i], PathsOf(openapi_schema)) IN
        /\ r.exc \notin {"none", "NameError", "AttributeError"}
        /\ Handle(r, Error("Failed to update response"))

\* The loop is exhausted: update_route_responses returns None
Return ==
    /\ pc = "loop"
    /\ i > Len(routes)
    /\ pc' = "returned"
    /\ UNCHANGED <<openapi_schema, routes, i, call, before, results, log>>

\* The caller runs update_route_responses again on the same document and app
CallAgain ==
    /\ pc \in {"returned", "raised"}
    /\ call = 1
    /\ call' = 2
    /\ i' = 1
    /\ pc' = "loop"
    /\ before' = openapi_schema
    /\ results' = <<>>
    /\ log' = <<>>
    /\ UNCHANGED <<openapi_schema, routes>>

Next ==
    \/ SkipRoute
    \/ UpdateRoute
    \/ ResolveFailure
    \/ UnexpectedFailure
    \/ Return
    \/ CallAgain

Spec == Init /\ [][Next]_vars

----------------------------------------------------------------------------
(* Vocabulary of the properties.  It is stated on the route table and the   *)
(* document directly, not through the operators that model the code.        *)

PathKeys == {"/items", "/users"}
MethodKeys == {"get", "post"}
StatusKeys == {"200", "201"}
Positions == PathKeys \X MethodKeys \X StatusKeys

\* The document has a response entry at paths[p][m]["responses"][s]
Present(schema, pos) ==
    /\ "paths" \in DOMAIN schema
    /\ schema.paths # None
    /\ pos[1] \in DOMAIN schema.paths
    /\ schema.paths[pos[1]] # None
    /\ pos[2] \in DOMAIN schema.paths[pos[1]]
    /\ schema.paths[pos[1]][pos[2]] # None
    /\ "responses" \in DOMAIN schema.paths[pos[1]][pos[2]]
    /\ schema.paths[pos[1]][pos[2]].responses # None
    /\ pos[3] \in DOMAIN schema.paths[pos[1]][pos[2]].responses

EntryAt(schema, pos) == schema.paths[pos[1]][pos[2]].responses[pos[3]]

\* The JSON media-type content that references the component called name
JsonRef(name) ==
    ("application/json" :> [schema |-> ("$ref" :> ("#/components/schemas/" \o name))])

\* entry["content"]["application/json"]["schema"]["$ref"] is the reference to name
HasRef(entry, name) ==
    /\ entry # None
    /\ "content" \in DOMAIN entry
    /\ "application/json" \in DOMAIN entry.content
    /\ "schema" \in DOMAIN entry.content["application/json"]
    /\ "$ref" \in DOMAIN entry.content["application/json"].schema
    /\ entry.content["application/json"].schema["$ref"] = "#/components/schemas/" \o name

\* The route is an APIRoute with a handler whose return annotation resolves
\* and extracts to a record type
Resolves(route) ==
    /\ route.kind = "APIRoute"
    /\ route.endpoint # None
    /\ route.endpoint.hints = "none"
    /\ route.endpoint.returns # None
    /\ extract_struct(route.endpoint.returns) # None

RecordName(route) == extract_struct(route.endpoint.returns).name

\* The route is one of the kinds the updater skips
Skippable(route) ==
    \/ route.kind # "APIRoute"
    \/ route.endpoint = None
    \/ route.endpoint.hints = "NameError"
    \/ /\ route.endpoint.hints = "none"
       /\ \/ route.endpoint.returns = None
          \/ extract_struct(route.endpoint.returns) = None

MethodKey(method) == IF method = "GET" THEN "get" ELSE IF method = "POST" THEN "post" ELSE method

StatusKey(route) ==
    IF route.status_code = None THEN "200"
    ELSE IF route.status_code = IntVal(201) THEN "201"
    ELSE "other"

\* pos is a (path, method, status) the route exposes
Targets(route, pos) ==
    /\ pos[1] = route.path
    /\ \E j \in 1..Len(route.methods) : pos[2] = MethodKey(route.methods[j])
    /\ pos[3] = StatusKey(route)

\* The routes attempted so far in this call that assigned to the entry at pos
Writers(pos) == {k \in 1..Len(results) : pos \in results[k].written}

Last(S) == CHOOSE k \in S : \A l \in S : l <= k

\* The description an entry keeps when it is overwritten
KeptDescription(entry) ==
    IF "description" \in DOMAIN entry THEN entry.description ELSE "Successful Response"

\* The path, method and status keys of a document
KeysOf(schema) ==
    IF "paths" \notin DOMAIN schema \/ schema.paths = None THEN {}
    ELSE LET paths == schema.paths
             methods(p) == IF paths[p] = None THEN {} ELSE DOMAIN paths[p]
             hasResponses(p, m) == paths[p][m] # None /\ "responses" \in DOMAIN paths[p][m]
             statuses(p, m) ==
                IF hasResponses(p, m) /\ paths[p][m].responses # None
                THEN DOMAIN paths[p][m].responses ELSE {}
         IN {<<p>> : p \in DOMAIN paths}
            \cup UNION {{<<p, m>> : m \in methods(p)} : p \in DOMAIN paths}
            \cup UNION {{<<p, m, "responses">> : m \in {x \in methods(p) : hasResponses(p, x)}} :
                            p \in DOMAIN paths}
            \cup UNION {UNION {{<<p, m, "responses", s>> : s \in statuses(p, m)} :
                                    m \in methods(p)} : p \in DOMAIN paths}

----------------------------------------------------------------------------
(* Properties *)

C2_Idempotent == (call = 2 /\ pc # "loop") => openapi_schema = before

\* C2 witness: the second run has gone through the table and rewrote an entry
\* that the first run had changed.
C2_Witness ==
    /\ call = 2
    /\ pc = "returned"
    /\ \E k \in 1..Len(results) : \E pos \in results[k].written :
            /\ HasRef(EntryAt(openapi_schema, pos), RecordName(routes[k]))
            /\ EntryAt(openapi_schema, pos).description = "Successful Response"

\* C3 (as claimed): update_route_responses never raises to its caller, and it
\* returns only after attempting every route.
C3_NeverRaises ==
    /\ pc # "raised"
    /\ pc = "returned" => Len(results) = Len(routes)

\* C4 (as claimed): when the processing of a route fails, every route after it
\* is still attempted, and the entries assigned before the failure still hold
\* the references written to them.
C4_FailureIsolated ==
    pc # "loop" =>
        \A k \in 1..Len(results) :
            results[k].exc # "none" =>
                /\ Len(results) = Len(routes)
                /\ \A l \in 1..k : \A pos \in results[l].written :
                        \E w \in Writers(pos) :
                            HasRef(EntryAt(openapi_schema, pos), RecordName(routes[w]))

\* C5: the path keys, the method keys of each path, the presence of
\* "responses" in each operation and the status keys of each "responses" are
\* at all times those the document had when the call began.
C5_NoKeyCreated ==
    /\ DOMAIN openapi_schema = DOMAIN before
    /\ KeysOf(openapi_schema) = KeysOf(before)

\* C5 witness: a call that rewrote an entry returned after it also met an
\* operation in which the route's status code is not documented.
C5_Witness ==
    /\ pc = "returned"
    /\ call = 1
    /\ \E k \in 1..Len(results) : results[k].written # {}
    /\ \E n \in 1..Len(log) : log[n].msg = "Status code not in responses"
    /\ openapi_schema # before

\* C6 (as claimed): the iteration for a route that is skipped (not an APIRoute,
\* no handler, no return annotation, an annotation that is no record type,
\* annotations that do not resolve) leaves the document as it was and raises
\* nothing.
C6_SkippedRouteIsSilent ==
    [][(AtRoute /\ Skippable(routes[i]))
            => (openapi_schema' = openapi_schema /\ pc' # "raised")]_vars

\* C7: an iteration that overwrites a response entry leaves there exactly the
\* previous description (or "Successful Response" when there was none) and a
\* content of the single JSON media type referencing the route's record type.
C7_OverwrittenEntry ==
    [][(AtRoute /\ Len(results') = Len(results) + 1)
            => \A pos \in results'[Len(results')].written :
                    EntryAt(openapi_schema', pos) =
                        [description |-> KeptDescription(EntryAt(openapi_schema, pos)),
                         content |-> JsonRef(RecordName(routes[i]))]]_vars

\* C7 witness: {"description": "OK"} at /items GET 200, with the one route
\* /items GET returning ItemOut, has become the entry of the specification's
\* scenario; another run overwrote an entry with headers and two media types.
C7_Witness ==
    /\ pc = "returned"
    /\ call = 1
    /\ Len(routes) = 1
    /\ Present(before, <<"/items", "get", "200">>)
    /\ EntryAt(before, <<"/items", "get", "200">>) = [description |-> "OK"]
    /\ routes[1].methods = <<"GET">>
    /\ Resolves(routes[1])
    /\ RecordName(routes[1]) = "ItemOut"
    /\ EntryAt(openapi_schema, <<"/items", "get", "200">>) =
            [description |-> "OK",
             content |-> ("application/json" :>
                            [schema |-> ("$ref" :> "#/components/schemas/ItemOut")])]

\* C8 (as claimed): whenever the failure of a route is logged, it is logged at
\* debug level if it is a NameError from annotation resolution and at error
\* level if it is any other exception.
C8_SeverityFollowsKind ==
    \A k \in 1..Len(results) :
        results[k].level # "none" =>
            /\ results[k].exc = "NameError" => results[k].level = "debug"
            /\ results[k].exc # "NameError" => results[k].level = "error"

C10_LastRouteWins ==
    (pc = "returned" /\ call = 1) =>
        \A pos \in Positions :
            LET sharing == {k \in 1..Len(routes) :
                                Resolves(routes[k]) /\ Targets(routes[k], pos)}
            IN (/\ Present(openapi_schema, pos)
                /\ \E k, l \in sharing : RecordName(routes[k]) # RecordName(routes[l]))
                => /\ HasRef(EntryAt(openapi_schema, pos), RecordName(routes[Last(sharing)]))
                   /\ EntryAt(openapi_schema, pos).description
                        = KeptDescription(EntryAt(before, pos))

\* C10 (amended): at all times an entry that routes of this call have
\* rewritten references the record type of the last route, in route-table
\* order, that rewrote it, and has the description it had when the call began,
\* or "Successful Response" if it had none.
C10_LastWriterWins ==
    \A pos \in Positions :
        Writers(pos) # {} =>
            /\ HasRef(EntryAt(openapi_schema, pos), RecordName(routes[Last(Writers(pos))]))
            /\ EntryAt(openapi_schema, pos).description
                    = KeptDescription(EntryAt(before, pos))

\* C10 witness: two routes with different record types rewrote the same entry,
\* which had no description.
C10_Witness ==
    /\ pc = "returned"
    /\ call = 1
    /\ \E pos \in Positions : \E k, l \in Writers(pos) :
            /\ k < l
            /\ RecordName(routes[k]) # RecordName(routes[l])
            /\ EntryAt(before, pos) = EmptyDict
            /\ HasRef(EntryAt(openapi_schema, pos), RecordName(routes[l]))

====
